---- MODULE Spec2Model ----
(***************************************************************************)
(* BOM360 workflow (src/src/workflows.py): the LangGraph topology built by *)
(* build_graph, the node functions it registers, the neo4j client they     *)
(* query and the caller of app.py that invokes the compiled graph.         *)
(*                                                                         *)
(* Python values are encoded as follows.                                   *)
(*   - `X | None` is a sequence of length at most one: None is <<>>, a     *)
(*     value x is <<x>> (Some(x)).                                         *)
(*   - a str holding an identifier or a request text is a TLA+ string; the *)
(*     Mermaid text, which the code searches for keywords, is a sequence   *)
(*     of one-character strings.                                           *)
(*   - a dict is a function whose DOMAIN is the set of its keys.           *)
(*   - the pydantic reports the agents return are opaque tokens: the       *)
(*     workflow only tests them for truthiness and passes them on.         *)
(***************************************************************************)
EXTENDS Integers, Sequences, FiniteSets, TLC

VARIABLES
    state,      \* the AppState flowing through the graph (channel values)
    pc,         \* the node the executor runs next, "END", "failed", or a helper position
    trace,      \* the nodes the executor has started, in order
    calls,      \* every collaborator call issued so far, with whether it raised
    keys,       \* argument `keys` of the latest _facts_payload call
    payload,    \* result of the latest _facts_payload call
    input,      \* the state handed to app.invoke
    outcome,    \* what _run_once ended with: "running", "completed", "error"
    out,        \* the AppState _run_once received from app.invoke, if any
    held,       \* the state object the latest node was handed, as it reads after that node
    runs        \* the invocations of one compiled graph that are in progress together

vars == <<state, pc, trace, calls, keys, payload, input, outcome, out, held, runs>>

----------------------------------------------------------------------------
(* Bounds of the model *)

MaxScopeRows == 2   \* rows the scope query returns
MaxRows == 1        \* rows every other fact-store query returns
MaxInstr == 1       \* work instructions the instruction agent returns
MaxMsgs == 1        \* entries of the initial transcript

----------------------------------------------------------------------------
(* Python value helpers *)

None == <<>>
Some(x) == <<x>>

Last(s) == s[Len(s)]

SeqsUpTo(S, n) == UNION {[1..k -> S] : k \in 0..n}

Min(a, b) == IF a < b THEN a ELSE b

\* bool(x) of a `str | None` holding a TLA+ string
TruthyStr(o) == o # None /\ o[1] # ""

\* bool(x) of a `str | None` holding a character sequence
TruthyText(o) == o # None /\ o[1] # <<>>

\* bool(x) of an optional pydantic model: any instance is truthy
TruthyModel(o) == o # None

\* bool(x) of a list
TruthyList(l) == l # <<>>

\* dict.get(key) of a row whose column values are optional
Get(row, col) == IF col \in DOMAIN row THEN row[col] ELSE None

\* {**d, key: value}
Put(d, key, value) == (key :> value) @@ d

----------------------------------------------------------------------------
(* models.py *)

Intent == {"work_instructions", "capacity_wip", "vsm", "supplier_risk", "line_status"}

QueryResult(cypher, parameters, rows) ==
    [cypher |-> cypher, parameters |-> parameters, rows |-> rows, row_count |-> Len(rows)]

VerificationResult(valid, issues) ==
    [valid |-> valid, issues |-> issues, warnings |-> <<>>]

\* AppState(user_goal=..., messages=...) with every other field at its default
AppState(messages, user_goal) ==
    [messages |-> messages,
     user_goal |-> user_goal,
     intent |-> None,
     line_id |-> None,
     job_id |-> None,
     facts |-> <<>>,
     work_instructions |-> <<>>,
     capacity_report |-> None,
     supplier_risk_report |-> None,
     line_status_report |-> None,
     mermaid |-> None,
     verification |-> None,
     error |-> None]

\* pydantic validation of AppState(**values): intent is Intent | None
Validates(st) == st.intent = None \/ (Len(st.intent) = 1 /\ st.intent[1] \in Intent)

----------------------------------------------------------------------------
(* cypher_templates.py: each template is (cypher, params) *)

ScopeLimit == 5

most_urgent_lines(limit) ==
    [cypher |-> "most_urgent_lines", params |-> [limit |-> limit]]

operation_backbone(line_id, job_id) ==
    [cypher |-> "operation_backbone", params |-> [line_id |-> line_id, job_id |-> job_id]]

parts_and_suppliers(line_id, job_id) ==
    [cypher |-> "parts_and_suppliers", params |-> [line_id |-> line_id, job_id |-> job_id]]

workers_for_line(line_id, job_id) ==
    [cypher |-> "workers_for_line", params |-> [line_id |-> line_id, job_id |-> job_id]]

supervisors_for_line(line_id) ==
    [cypher |-> "supervisors_for_line", params |-> [line_id |-> line_id]]

skill_coverage(line_id) ==
    [cypher |-> "skill_coverage", params |-> [line_id |-> line_id]]

all_lines_status ==
    [cypher |-> "all_lines_status", params |-> <<>>]

----------------------------------------------------------------------------
(* Collaborators: what a call can come back with *)

\* a collaborator call either raises or returns an output
Raises == [raised |-> TRUE]
Returns(x) == [raised |-> FALSE, output |-> x]
Outcomes(S) == {Raises} \cup {Returns(x) : x \in S}

\* rows of the scope query: line_id and job_id columns of the soonest-due lines
ScopeRow == {[line_id |-> Some("L1"), job_id |-> Some("J1")],
             [line_id |-> Some("L2"), job_id |-> Some("J2")]}

\* rows of every other query are not inspected by the workflow
OtherRow == {[op_id |-> "op"]}

\* the scope query returns one row per line, at most LIMIT $limit of them
Injective(s) == \A i, j \in DOMAIN s : s[i] = s[j] => i = j

RowsOf(q) ==
    IF q.cypher = "most_urgent_lines"
    THEN {s \in SeqsUpTo(ScopeRow, Min(MaxScopeRows, q.params.limit)) : Injective(s)}
    ELSE SeqsUpTo(OtherRow, MaxRows)

\* Neo4jClient.run: wraps the rows in a QueryResult, re-raises a driver error
db_run(q, res) ==
    IF res.raised THEN Raises
    ELSE Returns(QueryResult(q.cypher, q.params, res.output))

DbOutcomes(q) == Outcomes(RowsOf(q))

\* the classifier: an Intent token, or (unvalidated by the workflow) anything else
RouterOutputs == {Some(i) : i \in Intent} \cup {Some("unrecognized"), None}

\* the typed outputs of the analysis agents (agents.py output_type)
CapacityReports == {"CapacityReport"}
SupplierRiskReports == {"SupplierRiskReport"}
LineStatusReports == {"LineStatusReport"}
WorkInstructionLists == SeqsUpTo({"WorkInstruction"}, MaxInstr)

\* str outputs of the mermaid agent: "", "graph", "Flowchart", "pie"
MermaidTexts ==
    {<<>>,
     <<"g", "r", "a", "p", "h">>,
     <<"F", "l", "o", "w", "c", "h", "a", "r", "t">>,
     <<"p", "i", "e">>}

VerifierOutputs ==
    {VerificationResult(TRUE, <<>>), VerificationResult(FALSE, <<"issue">>)}

\* the record of one collaborator call in `calls`: whom, with what, and what came back
Call(to, arg, res) ==
    [to |-> to, arg |-> arg, raised |-> res.raised,
     output |-> IF res.raised THEN None ELSE Some(res.output)]

----------------------------------------------------------------------------
(* workflows.py: _facts_payload *)

\* the section _facts_payload emits for one requested key, if any
PayloadSection(st, k) ==
    IF k \in DOMAIN st.facts /\ st.facts[k].rows # <<>>
    THEN <<[section |-> "rows", key |-> k,
            row_count |-> st.facts[k].row_count, rows |-> st.facts[k].rows]>>
    ELSE IF k \in DOMAIN st.facts
    THEN <<[section |-> "no_data", key |-> k]>>
    ELSE <<>>

RECURSIVE PayloadSections(_, _)
PayloadSections(st, ks) ==
    IF ks = <<>> THEN <<>>
    ELSE PayloadSection(st, Head(ks)) \o PayloadSections(st, Tail(ks))

_facts_payload(st, ks) ==
    <<[section |-> "scope", line_id |-> st.line_id, job_id |-> st.job_id]>>
        \o PayloadSections(st, ks)

----------------------------------------------------------------------------
(* workflows.py: node functions. Each takes the state and what its          *)
(* collaborator call(s) came back with, and returns Raises (the exception   *)
(* propagates) or Returns(the new AppState).                                *)

\* a transcript entry given as a plain dict {"type": "human", "content": c}, the
\* form a JSON client sends: `messages: list` keeps it as it is
DictMessage(content) == [type |-> "dict", content |-> content]

\* hasattr(entry, "content"): true of a message object, false of a dict, whose
\* content is a key and not an attribute
HasContentAttr(entry) == entry.type # "dict"

\* str(entry) of a dict entry: the dict's repr
Str(entry) ==
    CASE entry.content = "m1" -> "{'type': 'human', 'content': 'm1'}"
      [] entry.content = "m2" -> "{'type': 'human', 'content': 'm2'}"
      [] entry.content = "m3" -> "{'type': 'human', 'content': 'm3'}"
      [] OTHER -> "{'type': 'human', 'content': 'm4'}"

\* the text node_route classifies
RouteGoal(st) ==
    IF st.user_goal = "" /\ st.messages # <<>>
    THEN (IF HasContentAttr(Last(st.messages))
          THEN Last(st.messages).content ELSE Str(Last(st.messages)))
    ELSE st.user_goal

\* Faulty variant of node_route: a classifier failure is swallowed and the run
\* goes on with the intent left unset
node_route_swallowing(st, res) ==
    IF res.raised THEN Returns([st EXCEPT !.user_goal = RouteGoal(st)])
    ELSE Returns([st EXCEPT !.intent = res.output, !.user_goal = RouteGoal(st)])

node_route(st, res) ==
    IF res.raised THEN Raises
    ELSE Returns([st EXCEPT !.intent = res.output, !.user_goal = RouteGoal(st)])

\* Faulty variant of ScopeAlreadySet: a preset scope is kept only once candidates
\* have been recorded
ScopeAlreadySet_needs_candidates(st) ==
    TruthyStr(st.line_id) /\ TruthyStr(st.job_id) /\ "scope_candidates" \in DOMAIN st.facts

\* node_pick_scope's early return: `if state.line_id and state.job_id`
ScopeAlreadySet(st) == TruthyStr(st.line_id) /\ TruthyStr(st.job_id)

\* the queries node_pick_scope issues
ScopeQueries(st) ==
    IF ScopeAlreadySet(st) THEN <<>> ELSE <<most_urgent_lines(ScopeLimit)>>

\* Faulty variant of node_pick_scope: rows[0] is read without the `if qr.rows`
\* guard, so an empty result raises
node_pick_scope_unguarded(st, res) ==
    IF ScopeAlreadySet(st) THEN Returns(st)
    ELSE IF res.raised THEN Raises
    ELSE LET qr == res.output
             updated == [st EXCEPT !.facts = Put(st.facts, "scope_candidates", qr)]
         IN  IF qr.rows # <<>>
             THEN Returns([updated EXCEPT !.line_id = Get(qr.rows[1], "line_id"),
                                          !.job_id = Get(qr.rows[1], "job_id")])
             ELSE Raises

\* Faulty variant of node_pick_scope: the scope is taken from the last row
node_pick_scope_last_row(st, res) ==
    IF ScopeAlreadySet(st) THEN Returns(st)
    ELSE IF res.raised THEN Raises
    ELSE LET qr == res.output
             updated == [st EXCEPT !.facts = Put(st.facts, "scope_candidates", qr)]
         IN  IF qr.rows # <<>>
             THEN Returns([updated EXCEPT !.line_id = Get(qr.rows[Len(qr.rows)], "line_id"),
                                          !.job_id = Get(qr.rows[Len(qr.rows)], "job_id")])
             ELSE Returns(updated)

node_pick_scope(st, res) ==
    IF ScopeAlreadySet(st) THEN Returns(st)
    ELSE IF res.raised THEN Raises
    ELSE LET qr == res.output
             updated == [st EXCEPT !.facts = Put(st.facts, "scope_candidates", qr)]
         IN  IF qr.rows # <<>>
             THEN Returns([updated EXCEPT !.line_id = Get(qr.rows[1], "line_id"),
                                          !.job_id = Get(qr.rows[1], "job_id")])
             ELSE Returns(updated)

\* Faulty variant of node_fetch_backbone: the new facts dict drops **state.facts
node_fetch_backbone_replacing(st, res) ==
    IF res.raised THEN Raises
    ELSE Returns([st EXCEPT !.facts = Put(<<>>, "backbone", res.output)])

node_fetch_backbone(st, res) ==
    IF res.raised THEN Raises
    ELSE Returns([st EXCEPT !.facts = Put(st.facts, "backbone", res.output)])


\* Faulty variant of node_fetch_parts: the result is stored under another key
node_fetch_parts_wrong_key(st, res) ==
    IF res.raised THEN Raises
    ELSE Returns([st EXCEPT !.facts = Put(st.facts, "parts", res.output)])

node_fetch_parts(st, res) ==
    IF res.raised THEN Raises
    ELSE Returns([st EXCEPT !.facts = Put(st.facts, "parts_suppliers", res.output)])

\* the three queries of node_fetch_workers, in the order it issues them
WorkerQueries(st) ==
    <<workers_for_line(st.line_id, st.job_id),
      supervisors_for_line(st.line_id),
      skill_coverage(st.line_id)>>


\* Faulty variant of node_fetch_workers: a failing supervisors or coverage
\* query is swallowed and the workers already fetched are stored
node_fetch_workers_partial(st, res, res2, res3) ==
    IF res.raised THEN Raises
    ELSE IF res2.raised \/ res3.raised
    THEN Returns([st EXCEPT !.facts = Put(st.facts, "workers", res.output)])
    ELSE Returns([st EXCEPT !.facts =
            Put(Put(Put(st.facts, "workers", res.output),
                    "supervisors", res2.output),
                "skill_coverage", res3.output)])

node_fetch_workers(st, res, res2, res3) ==
    IF res.raised \/ res2.raised \/ res3.raised THEN Raises
    ELSE Returns([st EXCEPT !.facts =
            Put(Put(Put(st.facts, "workers", res.output),
                    "supervisors", res2.output),
                "skill_coverage", res3.output)])

node_fetch_all_lines(st, res) ==
    IF res.raised THEN Raises
    ELSE Returns([st EXCEPT !.facts = Put(st.facts, "all_lines", res.output)])

\* the fact keys each analysis node serializes
CapacityKeys == <<"backbone", "workers", "supervisors", "skill_coverage">>
InstructionKeys == <<"backbone", "parts_suppliers", "workers">>
SupplierRiskKeys == <<"backbone", "parts_suppliers">>
LineStatusKeys == <<"all_lines">>
VsmKeys == <<"backbone">>

\* Faulty variant of node_capacity: an agent failure is swallowed and the state
\* is passed on without a report
node_capacity_swallowing(st, res) ==
    IF res.raised THEN Returns(st)
    ELSE Returns([st EXCEPT !.capacity_report = Some(res.output)])

node_capacity(st, res) ==
    IF res.raised THEN Raises
    ELSE Returns([st EXCEPT !.capacity_report = Some(res.output)])

node_instructions(st, res) ==
    IF res.raised THEN Raises
    ELSE Returns([st EXCEPT !.work_instructions = res.output])


\* Faulty variant of node_supplier_risk: an agent failure is caught and recorded
\* in the state's error field
node_supplier_risk_recording(st, res) ==
    IF res.raised THEN Returns([st EXCEPT !.error = Some("supplier risk analysis failed")])
    ELSE Returns([st EXCEPT !.supplier_risk_report = Some(res.output)])

node_supplier_risk(st, res) ==
    IF res.raised THEN Raises
    ELSE Returns([st EXCEPT !.supplier_risk_report = Some(res.output)])

node_line_status(st, res) ==
    IF res.raised THEN Raises
    ELSE Returns([st EXCEPT !.line_status_report = Some(res.output)])

node_vsm_mermaid(st, res) ==
    IF res.raised THEN Raises
    ELSE Returns([st EXCEPT !.mermaid = Some(res.output)])

----------------------------------------------------------------------------
(* workflows.py: node_verify *)

\* str.lower() on the letters A..Z
ToLower ==
    [A |-> "a", B |-> "b", C |-> "c", D |-> "d", E |-> "e", F |-> "f", G |-> "g",
     H |-> "h", I |-> "i", J |-> "j", K |-> "k", L |-> "l", M |-> "m", N |-> "n",
     O |-> "o", P |-> "p", Q |-> "q", R |-> "r", S |-> "s", T |-> "t", U |-> "u",
     V |-> "v", W |-> "w", X |-> "x", Y |-> "y", Z |-> "z"]

Lower(text) ==
    [i \in DOMAIN text |-> IF text[i] \in DOMAIN ToLower THEN ToLower[text[i]] ELSE text[i]]

\* `sub in text`
Contains(text, sub) ==
    \E i \in 1..(Len(text) - Len(sub) + 1) : SubSeq(text, i, i + Len(sub) - 1) = sub

\* which output node_verify picks: the first truthy one in its if/elif chain
VerifyVariant(st) ==
    IF TruthyModel(st.capacity_report) THEN "capacity_report"
    ELSE IF TruthyList(st.work_instructions) THEN "work_instructions"
    ELSE IF TruthyModel(st.supplier_risk_report) THEN "supplier_risk_report"
    ELSE IF TruthyModel(st.line_status_report) THEN "line_status_report"
    ELSE IF TruthyText(st.mermaid) THEN "mermaid"
    ELSE "none"

\* Faulty variant of VerifyKeys: the work instructions are verified without the
\* parts and suppliers they were written from
VerifyKeys_without_parts(variant) ==
    CASE variant = "capacity_report" -> <<"backbone", "workers", "supervisors", "skill_coverage">>
      [] variant = "work_instructions" -> <<"backbone", "workers">>
      [] variant = "supplier_risk_report" -> <<"backbone", "parts_suppliers">>
      [] variant = "line_status_report" -> <<"all_lines">>
      [] OTHER -> <<>>

\* fact_keys of node_verify, per picked output
VerifyKeys(variant) ==
    CASE variant = "capacity_report" -> <<"backbone", "workers", "supervisors", "skill_coverage">>
      [] variant = "work_instructions" -> <<"backbone", "parts_suppliers", "workers">>
      [] variant = "supplier_risk_report" -> <<"backbone", "parts_suppliers">>
      [] variant = "line_status_report" -> <<"all_lines">>
      [] OTHER -> <<>>

\* whether node_verify calls verifier_agent
VerifierCalled(st) == VerifyVariant(st) \notin {"mermaid", "none"}

\* Faulty variant of MermaidValid: the text is searched without lower-casing it
MermaidValid_case_sensitive(text) ==
    \/ Contains(text, <<"g", "r", "a", "p", "h">>)
    \/ Contains(text, <<"f", "l", "o", "w", "c", "h", "a", "r", "t">>)

\* the local check of the Mermaid text
MermaidValid(text) ==
    \/ Contains(Lower(text), <<"g", "r", "a", "p", "h">>)
    \/ Contains(Lower(text), <<"f", "l", "o", "w", "c", "h", "a", "r", "t">>)

node_verify(st, res) ==
    IF VerifyVariant(st) = "none" THEN Returns(st)
    ELSE IF VerifyVariant(st) = "mermaid"
    THEN LET valid == MermaidValid(st.mermaid[1])
         IN  Returns([st EXCEPT !.verification = Some(VerificationResult(valid,
                 IF valid THEN <<>>
                 ELSE <<"Mermaid output missing graph/flowchart declaration">>))])
    ELSE IF res.raised THEN Raises
    ELSE Returns([st EXCEPT !.verification = Some(res.output)])

----------------------------------------------------------------------------
(* workflows.py: _format_response and node_respond *)

HumanMessage(content) == [type |-> "human", content |-> content]
AIMessage(content) == [type |-> "ai", content |-> content]


\* Faulty variant of RenderedVariant: the supplier risk report is looked at
\* before the work instructions
RenderedVariant_risk_first(st) ==
    IF TruthyModel(st.capacity_report) THEN "capacity_report"
    ELSE IF TruthyModel(st.supplier_risk_report) THEN "supplier_risk_report"
    ELSE IF TruthyList(st.work_instructions) THEN "work_instructions"
    ELSE IF TruthyModel(st.line_status_report) THEN "line_status_report"
    ELSE IF TruthyText(st.mermaid) THEN "mermaid"
    ELSE "none"

\* which output _format_response renders: the first truthy one in its if/elif chain
RenderedVariant(st) ==
    IF TruthyModel(st.capacity_report) THEN "capacity_report"
    ELSE IF TruthyList(st.work_instructions) THEN "work_instructions"
    ELSE IF TruthyModel(st.supplier_risk_report) THEN "supplier_risk_report"
    ELSE IF TruthyModel(st.line_status_report) THEN "line_status_report"
    ELSE IF TruthyText(st.mermaid) THEN "mermaid"
    ELSE "none"

\* the text as its parts, in order: intent line, the rendered output, verification
_format_response(st) ==
    <<[part |-> "intent", value |-> st.intent]>>
    \o (IF RenderedVariant(st) = "none" THEN <<>>
        ELSE <<[part |-> RenderedVariant(st), value |-> st[RenderedVariant(st)]]>>)
    \o (IF TruthyModel(st.verification)
        THEN <<[part |-> "verification", valid |-> st.verification[1].valid,
                issues |-> st.verification[1].issues]>>
        ELSE <<>>)

\* Faulty variant of node_respond: the state is rebuilt from the transcript and
\* the goal instead of copied, so every other field falls back to its default
node_respond_fresh(st) ==
    Returns(AppState(st.messages \o <<AIMessage(_format_response(st))>>, st.user_goal))

\* Faulty variant of node_respond: the response is inserted in front of the
\* prior entries instead of after them
node_respond_prepending(st) ==
    Returns([st EXCEPT !.messages = <<AIMessage(_format_response(st))>> \o st.messages])

node_respond(st) ==
    Returns([st EXCEPT !.messages = st.messages \o <<AIMessage(_format_response(st))>>])

----------------------------------------------------------------------------
(* workflows.py: build_graph *)

END == "END"

Nodes ==
    {"route", "scope", "backbone",
     "fetch_cap_workers", "capacity",
     "fetch_instr_parts", "fetch_instr_workers", "instructions",
     "fetch_risk_parts", "supplier_risk",
     "vsm_mermaid",
     "fetch_all_lines", "line_status",
     "verify", "respond"}

AnalysisNodes == {"capacity", "instructions", "supplier_risk", "line_status", "vsm_mermaid"}

EntryPoint == "route"

\* Faulty variant of Edges: the capacity path bypasses the verifier
Edges_skip_verify ==
    {<<"route", "scope">>,
     <<"fetch_cap_workers", "capacity">>, <<"capacity", "respond">>,
     <<"fetch_instr_parts", "fetch_instr_workers">>,
     <<"fetch_instr_workers", "instructions">>, <<"instructions", "verify">>,
     <<"fetch_risk_parts", "supplier_risk">>, <<"supplier_risk", "verify">>,
     <<"vsm_mermaid", "verify">>,
     <<"fetch_all_lines", "line_status">>, <<"line_status", "verify">>,
     <<"verify", "respond">>, <<"respond", "END">>}

\* Faulty variant of Edges: a leftover edge chains the capacity analysis into the
\* instruction writer
Edges_conflicting ==
    {<<"route", "scope">>,
     <<"fetch_cap_workers", "capacity">>, <<"capacity", "verify">>,
     <<"capacity", "instructions">>,
     <<"fetch_instr_parts", "fetch_instr_workers">>,
     <<"fetch_instr_workers", "instructions">>, <<"instructions", "verify">>,
     <<"fetch_risk_parts", "supplier_risk">>, <<"supplier_risk", "verify">>,
     <<"vsm_mermaid", "verify">>,
     <<"fetch_all_lines", "line_status">>, <<"line_status", "verify">>,
     <<"verify", "respond">>, <<"respond", "END">>}

\* Faulty variant of Edges: backbone keeps an unconditional edge next to its
\* conditional edges
Edges_backbone_shortcut ==
    {<<"route", "scope">>, <<"backbone", "fetch_cap_workers">>,
     <<"fetch_cap_workers", "capacity">>, <<"capacity", "verify">>,
     <<"fetch_instr_parts", "fetch_instr_workers">>,
     <<"fetch_instr_workers", "instructions">>, <<"instructions", "verify">>,
     <<"fetch_risk_parts", "supplier_risk">>, <<"supplier_risk", "verify">>,
     <<"vsm_mermaid", "verify">>,
     <<"fetch_all_lines", "line_status">>, <<"line_status", "verify">>,
     <<"verify", "respond">>, <<"respond", "END">>}


\* Faulty variant of Edges: respond hands the run back to verify
Edges_looping ==
    {<<"route", "scope">>,
     <<"fetch_cap_workers", "capacity">>, <<"capacity", "verify">>,
     <<"fetch_instr_parts", "fetch_instr_workers">>,
     <<"fetch_instr_workers", "instructions">>, <<"instructions", "verify">>,
     <<"fetch_risk_parts", "supplier_risk">>, <<"supplier_risk", "verify">>,
     <<"vsm_mermaid", "verify">>,
     <<"fetch_all_lines", "line_status">>, <<"line_status", "verify">>,
     <<"verify", "respond">>, <<"respond", "verify">>}

\* g.add_edge(from, to)
Edges ==
    {<<"route", "scope">>,
     <<"fetch_cap_workers", "capacity">>, <<"capacity", "verify">>,
     <<"fetch_instr_parts", "fetch_instr_workers">>,
     <<"fetch_instr_workers", "instructions">>, <<"instructions", "verify">>,
     <<"fetch_risk_parts", "supplier_risk">>, <<"supplier_risk", "verify">>,
     <<"vsm_mermaid", "verify">>,
     <<"fetch_all_lines", "line_status">>, <<"line_status", "verify">>,
     <<"verify", "respond">>, <<"respond", END>>}

\* Faulty variant of branch_after_scope: the default case takes the all-lines path
branch_after_scope_default_all_lines(st) ==
    IF st.intent = Some("capacity_wip") THEN "backbone"
    ELSE IF st.intent = Some("work_instructions") THEN "backbone"
    ELSE IF st.intent = Some("supplier_risk") THEN "backbone"
    ELSE IF st.intent = Some("vsm") THEN "backbone"
    ELSE "fetch_all_lines"

branch_after_scope(st) ==
    IF st.intent = Some("capacity_wip") THEN "backbone"
    ELSE IF st.intent = Some("work_instructions") THEN "backbone"
    ELSE IF st.intent = Some("supplier_risk") THEN "backbone"
    ELSE IF st.intent = Some("vsm") THEN "backbone"
    ELSE IF st.intent = Some("line_status") THEN "fetch_all_lines"
    ELSE "backbone"

\* the mapping given to add_conditional_edges("scope", ...)
ScopeTargets == [backbone |-> "backbone", fetch_all_lines |-> "fetch_all_lines"]

\* Faulty variant of branch_after_backbone: the default label is one the mapping
\* does not register
branch_after_backbone_unmapped(st) ==
    IF st.intent = Some("capacity_wip") THEN "cap_workers"
    ELSE IF st.intent = Some("work_instructions") THEN "instr_parts"
    ELSE IF st.intent = Some("supplier_risk") THEN "risk_parts"
    ELSE IF st.intent = Some("vsm") THEN "vsm"
    ELSE "fetch_workers"

branch_after_backbone(st) ==
    IF st.intent = Some("capacity_wip") THEN "cap_workers"
    ELSE IF st.intent = Some("work_instructions") THEN "instr_parts"
    ELSE IF st.intent = Some("supplier_risk") THEN "risk_parts"
    ELSE IF st.intent = Some("vsm") THEN "vsm"
    ELSE "cap_workers"

\* Faulty variant of BackboneTargets: the two parts-fetching targets are swapped
BackboneTargets_swapped ==
    [cap_workers |-> "fetch_cap_workers",
     instr_parts |-> "fetch_risk_parts",
     risk_parts |-> "fetch_instr_parts",
     vsm |-> "vsm_mermaid"]


\* Faulty variant of BackboneTargets: the supplier-risk label leads straight to
\* the analysis, past the parts fetch
BackboneTargets_skip_fetch ==
    [cap_workers |-> "fetch_cap_workers",
     instr_parts |-> "fetch_instr_parts",
     risk_parts |-> "supplier_risk",
     vsm |-> "vsm_mermaid"]

\* the mapping given to add_conditional_edges("backbone", ...)
BackboneTargets ==
    [cap_workers |-> "fetch_cap_workers",
     instr_parts |-> "fetch_instr_parts",
     risk_parts |-> "fetch_risk_parts",
     vsm |-> "vsm_mermaid"]

\* the label a node's decision function returns, as a set (empty: no conditional edge)
BranchLabels(n, st) ==
    IF n = "scope" THEN {branch_after_scope(st)}
    ELSE IF n = "backbone" THEN {branch_after_backbone(st)}
    ELSE {}

BranchTargets(n) ==
    IF n = "scope" THEN ScopeTargets
    ELSE IF n = "backbone" THEN BackboneTargets
    ELSE <<>>

\* the nodes the compiled graph runs after node n returned st; a label without a
\* target is an error of the executor, written "unmapped"
Successors(n, st) ==
    {e[2] : e \in {e \in Edges : e[1] = n}}
    \cup {IF l \in DOMAIN BranchTargets(n) THEN BranchTargets(n)[l] ELSE "unmapped" :
            l \in BranchLabels(n, st)}

----------------------------------------------------------------------------
(* app.py: _run_once, the caller of the compiled graph *)

\* Faulty variant of _run_once: the except branch hands back the state reached
_run_once_partial(values, raised) ==
    IF ~Validates(values)
    THEN [outcome |-> "error", out |-> None]
    ELSE [outcome |-> "completed", out |-> Some(values)]

\* what _run_once ends with, given the channel values when app.invoke stopped and
\* whether it raised: AppState(**values) validates, any exception is reported
_run_once(values, raised) ==
    IF raised \/ ~Validates(values)
    THEN [outcome |-> "error", out |-> None]
    ELSE [outcome |-> "completed", out |-> Some(values)]

----------------------------------------------------------------------------
(* Initial states: the AppState a caller hands to the graph. _run_once sets  *)
(* user_goal and one HumanMessage; the graph exposed by studio.py accepts    *)
(* any AppState, so the scope, the goal and the facts may be preset.         *)

MsgText == <<"m1", "m2", "m3", "m4">>

Transcripts ==
    {[i \in 1..k |-> HumanMessage(MsgText[i])] : k \in 0..Min(MaxMsgs, Len(MsgText))}

Goals == {"", "m1"}

InitialScopes ==
    {<<None, None>>, <<Some("L9"), Some("J9")>>, <<Some("L9"), None>>, <<Some(""), Some("J9")>>}

\* facts left over from an earlier retrieval
StaleFacts ==
    Put(<<>>, "backbone", QueryResult("operation_backbone",
                                      [line_id |-> Some("L0"), job_id |-> Some("J0")], <<>>))

InitialStates ==
    {[AppState(m, g) EXCEPT !.line_id = sc[1], !.job_id = sc[2]] :
        m \in Transcripts, g \in Goals, sc \in InitialScopes}
    \cup {[AppState(<<HumanMessage("m1")>>, "m1") EXCEPT !.facts = StaleFacts]}
    \cup {AppState(<<DictMessage("m1")>>, "")}

Init ==
    /\ state \in InitialStates
    /\ input = state
    /\ pc = EntryPoint
    /\ trace = <<>>
    /\ calls = <<>>
    /\ keys = <<>>
    /\ payload = <<>>
    /\ outcome = "running"
    /\ out = None
    /\ held = state
    /\ runs = <<>>

----------------------------------------------------------------------------
(* The executor: runs node n, then moves to its successor or stops on a raise *)

\* Faulty variant of InputAfter: node_fetch_backbone stores its result with
\* state.facts["backbone"] = qr, writing into the dict its input still holds
InputAfter_in_place(n, st, r) ==
    IF n = "backbone" /\ ~r.raised THEN r.output ELSE st

\* what the object a node was handed reads like once the node is done: every
\* node builds its result with model_copy(update=...), a new facts dict
\* ({**state.facts, ...}) and a new list (state.messages + [...]), and writes
\* nothing into its argument
InputAfter(n, st, r) == st

Step(n, r) ==
    /\ trace' = Append(trace, n)
    /\ held' = InputAfter(n, state, r)
    /\ IF r.raised
       THEN state' = state /\ pc' = "failed"
       ELSE state' = r.output /\ pc' \in Successors(n, r.output)
    /\ UNCHANGED <<input, outcome, out, runs>>


\* Faulty variant of DbCalls: a query that raised is issued a second time
RECURSIVE DbCalls_retrying(_, _)
DbCalls_retrying(qs, rs) ==
    IF qs = <<>> THEN <<>>
    ELSE IF Head(rs).raised
    THEN <<Call("db", Head(qs), Head(rs)), Call("db", Head(qs), Head(rs))>>
    ELSE <<Call("db", Head(qs), Head(rs))>> \o DbCalls_retrying(Tail(qs), Tail(rs))

\* the calls logged for queries qs answered by rs: none is issued after a raise
RECURSIVE DbCalls(_, _)
DbCalls(qs, rs) ==
    IF qs = <<>> THEN <<>>
    ELSE <<Call("db", Head(qs), Head(rs))>>
         \o (IF Head(rs).raised THEN <<>> ELSE DbCalls(Tail(qs), Tail(rs)))

Route ==
    /\ pc = "route"
    /\ \E res \in Outcomes(RouterOutputs) :
        /\ calls' = Append(calls, Call("router_agent", RouteGoal(state), res))
        /\ Step("route", node_route(state, res))
    /\ UNCHANGED <<keys, payload>>

Scope ==
    /\ pc = "scope"
    /\ \E res \in DbOutcomes(most_urgent_lines(ScopeLimit)) :
        /\ calls' = calls \o DbCalls(ScopeQueries(state), <<res>>)
        /\ Step("scope", node_pick_scope(state, db_run(most_urgent_lines(ScopeLimit), res)))
    /\ UNCHANGED <<keys, payload>>

Backbone ==
    /\ pc = "backbone"
    /\ LET q == operation_backbone(state.line_id, state.job_id)
       IN  \E res \in DbOutcomes(q) :
            /\ calls' = calls \o DbCalls(<<q>>, <<res>>)
            /\ Step("backbone", node_fetch_backbone(state, db_run(q, res)))
    /\ UNCHANGED <<keys, payload>>

FetchParts(n) ==
    /\ pc = n
    /\ LET q == parts_and_suppliers(state.line_id, state.job_id)
       IN  \E res \in DbOutcomes(q) :
            /\ calls' = calls \o DbCalls(<<q>>, <<res>>)
            /\ Step(n, node_fetch_parts(state, db_run(q, res)))
    /\ UNCHANGED <<keys, payload>>

FetchWorkers(n) ==
    /\ pc = n
    /\ LET qs == WorkerQueries(state)
       IN  \E res \in DbOutcomes(qs[1]), res2 \in DbOutcomes(qs[2]), res3 \in DbOutcomes(qs[3]) :
            /\ calls' = calls \o DbCalls(qs, <<res, res2, res3>>)
            /\ Step(n, node_fetch_workers(state, db_run(qs[1], res),
                                          db_run(qs[2], res2), db_run(qs[3], res3)))
    /\ UNCHANGED <<keys, payload>>

FetchAllLines ==
    /\ pc = "fetch_all_lines"
    /\ LET q == all_lines_status
       IN  \E res \in DbOutcomes(q) :
            /\ calls' = calls \o DbCalls(<<q>>, <<res>>)
            /\ Step("fetch_all_lines", node_fetch_all_lines(state, db_run(q, res)))
    /\ UNCHANGED <<keys, payload>>

\* the common shape of the five analysis nodes: serialize, call the agent, store
Serialize(ks) ==
    /\ keys' = ks
    /\ payload' = _facts_payload(state, ks)

Capacity ==
    /\ pc = "capacity"
    /\ Serialize(CapacityKeys)
    /\ \E res \in Outcomes(CapacityReports) :
        /\ calls' = Append(calls, Call("capacity_agent", payload', res))
        /\ Step("capacity", node_capacity(state, res))

Instructions ==
    /\ pc = "instructions"
    /\ Serialize(InstructionKeys)
    /\ \E res \in Outcomes(WorkInstructionLists) :
        /\ calls' = Append(calls, Call("instruction_agent", payload', res))
        /\ Step("instructions", node_instructions(state, res))

SupplierRisk ==
    /\ pc = "supplier_risk"
    /\ Serialize(SupplierRiskKeys)
    /\ \E res \in Outcomes(SupplierRiskReports) :
        /\ calls' = Append(calls, Call("supplier_risk_agent", payload', res))
        /\ Step("supplier_risk", node_supplier_risk(state, res))

LineStatus ==
    /\ pc = "line_status"
    /\ Serialize(LineStatusKeys)
    /\ \E res \in Outcomes(LineStatusReports) :
        /\ calls' = Append(calls, Call("line_status_agent", payload', res))
        /\ Step("line_status", node_line_status(state, res))

VsmMermaid ==
    /\ pc = "vsm_mermaid"
    /\ Serialize(VsmKeys)
    /\ \E res \in Outcomes(MermaidTexts) :
        /\ calls' = Append(calls, Call("mermaid_agent", payload', res))
        /\ Step("vsm_mermaid", node_vsm_mermaid(state, res))

Verify ==
    /\ pc = "verify"
    /\ IF VerifierCalled(state)
       THEN /\ Serialize(VerifyKeys(VerifyVariant(state)))
            /\ \E res \in Outcomes(VerifierOutputs) :
                /\ calls' = Append(calls,
                        Call("verifier_agent",
                             [output |-> VerifyVariant(state), source |-> payload'], res))
                /\ Step("verify", node_verify(state, res))
       ELSE /\ UNCHANGED <<keys, payload, calls>>
            /\ Step("verify", node_verify(state, Raises))

Respond ==
    /\ pc = "respond"
    /\ Step("respond", node_respond(state))
    /\ UNCHANGED <<calls, keys, payload>>

\* app.invoke returned or raised: _run_once builds the AppState or reports the error
RunOnceReturn ==
    /\ pc \in {END, "failed", "unmapped"}
    /\ outcome = "running"
    /\ outcome' = _run_once(state, pc # END).outcome
    /\ out' = _run_once(state, pc # END).out
    /\ UNCHANGED <<state, pc, trace, calls, keys, payload, input, held, runs>>

\* one step of the compiled graph
NodeStep ==
    \/ Route
    \/ Scope
    \/ Backbone
    \/ FetchWorkers("fetch_cap_workers")
    \/ Capacity
    \/ FetchParts("fetch_instr_parts")
    \/ FetchWorkers("fetch_instr_workers")
    \/ Instructions
    \/ FetchParts("fetch_risk_parts")
    \/ SupplierRisk
    \/ VsmMermaid
    \/ FetchAllLines
    \/ LineStatus
    \/ Verify
    \/ Respond

Next == NodeStep \/ RunOnceReturn

Spec == Init /\ [][Next]_vars

\* the executor keeps running the next node while there is one, and every
\* collaborator call returns or raises: a node that can step eventually does
FairSpec == Init /\ [][Next]_vars /\ WF_vars(NodeStep)

----------------------------------------------------------------------------
(* _facts_payload on its own: any facts mapping, any list of requested keys *)

MaxKeys == 2        \* requested keys in one _facts_payload call

PayloadKeys == {"backbone", "parts_suppliers", "workers"}

PayloadFacts ==
    UNION {[S -> {QueryResult(operation_backbone(None, None).cypher,
                              operation_backbone(None, None).params, rows) :
                    rows \in SeqsUpTo(OtherRow, MaxRows)}] : S \in SUBSET PayloadKeys}

PayloadInit ==
    /\ state \in {[AppState(<<>>, "") EXCEPT !.facts = f] : f \in PayloadFacts}
    /\ input = state
    /\ keys \in SeqsUpTo(PayloadKeys, MaxKeys)
    /\ payload = <<>>
    /\ pc = "facts_payload"
    /\ trace = <<>>
    /\ calls = <<>>
    /\ outcome = "running"
    /\ out = None
    /\ held = state
    /\ runs = <<>>

FactsPayload ==
    /\ pc = "facts_payload"
    /\ payload' = _facts_payload(state, keys)
    /\ pc' = "returned"
    /\ UNCHANGED <<state, trace, calls, keys, input, outcome, out, held, runs>>

PayloadNext == FactsPayload

PayloadSpec == PayloadInit /\ [][PayloadNext]_vars

----------------------------------------------------------------------------
(* Two invocations of the one compiled graph, their node steps interleaved:  *)
(* studio.py builds `graph` once at module level and every request invokes   *)
(* it; app.py's chat loop invokes `app` once per question.                   *)

RunIds == {1, 2}

\* the AppState each invocation starts from
RunInput(r) ==
    IF r = 1 THEN AppState(<<HumanMessage("m1")>>, "m1")
    ELSE [AppState(<<HumanMessage("m2")>>, "m2") EXCEPT !.line_id = Some("L9"),
                                                        !.job_id = Some("J9")]

\* what the collaborators answer to one invocation: the classifier's token, the
\* rows of the scope query, and which collaborator (if any) raises
Oracles(r) ==
    IF r = 1
    THEN [intent : RouterOutputs,
          scope : {<<>>, <<[line_id |-> Some("L1"), job_id |-> Some("J1")]>>},
          fail : {"none", "router", "db", "agent", "verifier"}]
    ELSE [intent : RouterOutputs,
          scope : {<<>>},
          fail : {"none", "db"}]

DbAnswer(o) == IF o.fail = "db" THEN Raises ELSE Returns(<<[op_id |-> "op"]>>)

AgentAnswer(o, output) == IF o.fail = "agent" THEN Raises ELSE Returns(output)

\* g.add_node(name, fn): the function the executor calls for node n, applied to
\* the state st with the collaborators answering as o says
NodeOutcome(n, st, o) ==
    CASE n = "route" ->
            node_route(st, IF o.fail = "router" THEN Raises ELSE Returns(o.intent))
      [] n = "scope" ->
            node_pick_scope(st, db_run(most_urgent_lines(ScopeLimit), Returns(o.scope)))
      [] n = "backbone" ->
            node_fetch_backbone(st, db_run(operation_backbone(st.line_id, st.job_id),
                                           DbAnswer(o)))
      [] n \in {"fetch_instr_parts", "fetch_risk_parts"} ->
            node_fetch_parts(st, db_run(parts_and_suppliers(st.line_id, st.job_id),
                                        DbAnswer(o)))
      [] n \in {"fetch_cap_workers", "fetch_instr_workers"} ->
            node_fetch_workers(st, db_run(WorkerQueries(st)[1], DbAnswer(o)),
                                   db_run(WorkerQueries(st)[2], DbAnswer(o)),
                                   db_run(WorkerQueries(st)[3], DbAnswer(o)))
      [] n = "fetch_all_lines" ->
            node_fetch_all_lines(st, db_run(all_lines_status, DbAnswer(o)))
      [] n = "capacity" -> node_capacity(st, AgentAnswer(o, "CapacityReport"))
      [] n = "instructions" -> node_instructions(st, AgentAnswer(o, <<"WorkInstruction">>))
      [] n = "supplier_risk" -> node_supplier_risk(st, AgentAnswer(o, "SupplierRiskReport"))
      [] n = "line_status" -> node_line_status(st, AgentAnswer(o, "LineStatusReport"))
      [] n = "vsm_mermaid" ->
            node_vsm_mermaid(st, AgentAnswer(o, <<"g", "r", "a", "p", "h">>))
      [] n = "verify" ->
            node_verify(st, IF o.fail = "verifier" THEN Raises
                            ELSE Returns(VerificationResult(TRUE, <<>>)))
      [] n = "respond" -> node_respond(st)

\* Faulty variant of ChannelValues: the compiled graph keeps one set of channel
\* values, those of the invocation that started first
ChannelValues_shared(r, rs) == rs[1].state

\* the state a node of invocation r is handed: the channel values of that
\* invocation, created by app.invoke(state) from its own argument; build_graph's
\* closures hold only `db`, and no node reads or writes anything else
ChannelValues(r, rs) == rs[r].state

ConcurrentInit ==
    /\ runs \in {rs \in [RunIds -> [input : {RunInput(1), RunInput(2)},
                                     oracle : Oracles(1) \cup Oracles(2),
                                     state : {RunInput(1), RunInput(2)},
                                     pc : {EntryPoint}, steps : {0}]] :
                    \A r \in RunIds : /\ rs[r].input = RunInput(r)
                                      /\ rs[r].state = RunInput(r)
                                      /\ rs[r].oracle \in Oracles(r)}
    /\ state = AppState(<<>>, "")
    /\ input = state
    /\ held = state
    /\ pc = "concurrent"
    /\ trace = <<>>
    /\ calls = <<>>
    /\ keys = <<>>
    /\ payload = <<>>
    /\ outcome = "running"
    /\ out = None

\* invocation r runs its next node
RunStep(r) ==
    /\ runs[r].pc \in Nodes
    /\ LET res == NodeOutcome(runs[r].pc, ChannelValues(r, runs), runs[r].oracle)
       IN  IF res.raised
           THEN runs' = [runs EXCEPT ![r].pc = "failed", ![r].steps = @ + 1]
           ELSE \E nx \in Successors(runs[r].pc, res.output) :
                    runs' = [runs EXCEPT ![r].state = res.output, ![r].pc = nx,
                                         ![r].steps = @ + 1]
    /\ UNCHANGED <<state, pc, trace, calls, keys, payload, input, outcome, out, held>>

ConcurrentNext == \E r \in RunIds : RunStep(r)

ConcurrentSpec == ConcurrentInit /\ [][ConcurrentNext]_vars

----------------------------------------------------------------------------
(* node_verify and node_respond on their own, from any combination of output *)
(* fields: the studio graph accepts an AppState with outputs already set.    *)

OptionOf(S) == {None} \cup {Some(x) : x \in S}

OutputStates ==
    {[AppState(<<>>, "m1") EXCEPT !.capacity_report = c, !.work_instructions = w,
                                  !.supplier_risk_report = s, !.line_status_report = l,
                                  !.mermaid = m] :
        c \in OptionOf(CapacityReports), w \in WorkInstructionLists,
        s \in OptionOf(SupplierRiskReports), l \in OptionOf(LineStatusReports),
        m \in OptionOf(MermaidTexts)}

VariantInit ==
    /\ state \in OutputStates
    /\ input = state
    /\ held = state
    /\ pc = "verify"
    /\ trace = <<>>
    /\ calls = <<>>
    /\ keys = <<>>
    /\ payload = <<>>
    /\ outcome = "running"
    /\ out = None
    /\ runs = <<>>

VariantNext == Verify \/ Respond

VariantSpec == VariantInit /\ [][VariantNext]_vars

----------------------------------------------------------------------------
(* Properties *)

Range(s) == {s[i] : i \in DOMAIN s}

Count(s, S) == Cardinality({i \in DOMAIN s : s[i] \in S})

\* C1: Total branch coverage. For every value of intent (the five tokens, unset,
\* unrecognized) the label branch_after_scope returns is a key of the mapping
\* registered on "scope", the label branch_after_backbone returns is a key of the
\* mapping registered on "backbone", every mapped target is a registered node, and
\* no run evaluates a decision function to an unmapped label.
TotalBranchCoverage ==
    /\ \A i \in RouterOutputs \cup {state.intent} :
        /\ branch_after_scope([state EXCEPT !.intent = i]) \in DOMAIN ScopeTargets
        /\ branch_after_backbone([state EXCEPT !.intent = i]) \in DOMAIN BackboneTargets
    /\ \A l \in DOMAIN ScopeTargets : ScopeTargets[l] \in Nodes
    /\ \A l \in DOMAIN BackboneTargets : BackboneTargets[l] \in Nodes
    /\ pc # "unmapped"

\* an unrecognized intent has been branched on after scope and after backbone
TotalBranchCoverageWitness ==
    /\ state.intent = Some("unrecognized")
    /\ trace = <<"route", "scope", "backbone">>
    /\ pc = "fetch_cap_workers"

\* the output fields that are non-empty
NonEmptyOutputs(st) ==
    {f \in {"capacity_report", "supplier_risk_report", "line_status_report"} : st[f] # None}
    \cup (IF st.work_instructions # <<>> THEN {"work_instructions"} ELSE {})
    \cup (IF st.mermaid # None /\ st.mermaid # Some(<<>>) THEN {"mermaid"} ELSE {})

\* C2: Single-output invariant. In every run that reaches END, exactly one of the
\* five output fields is non-empty and the other four are empty or unset, whatever
\* the analysis collaborator returned (an empty instruction list and an empty
\* diagram string included).
SingleOutput ==
    pc = END => Cardinality(NonEmptyOutputs(state)) = 1

\* C3: Every path converges on the shared sink. END is only reached with "verify"
\* and then "respond" as the last two nodes executed, each executed exactly once;
\* and while no step has failed and END is not reached, the graph has a next step.
ConvergesOnSink ==
    /\ pc = END =>
        /\ Len(trace) >= 2
        /\ trace[Len(trace) - 1] = "verify"
        /\ trace[Len(trace)] = "respond"
        /\ Count(trace, {"verify"}) = 1
        /\ Count(trace, {"respond"}) = 1
    /\ Count(trace, {"verify"}) <= 1
    /\ Count(trace, {"respond"}) <= 1
    /\ pc \notin {END, "failed"} => ENABLED NodeStep

\* a run on the capacity path has reached END
ConvergesOnSinkWitness ==
    /\ pc = END
    /\ "capacity" \in Range(trace)

\* C4: Exactly one analysis node executes per run. No run executes two analysis nodes, or
\* one of them twice, and once "verify" is reached exactly one analysis node
\* has executed, exactly once.
OneAnalysisNode ==
    /\ Count(trace, AnalysisNodes) <= 1
    /\ (pc = "verify" \/ "verify" \in Range(trace)) => Count(trace, AnalysisNodes) = 1

\* the capacity analysis ran and the run went through verify
OneAnalysisNodeWitness ==
    /\ "capacity" \in Range(trace)
    /\ "verify" \in Range(trace)

\* C5: Fact append-only. In a run that starts with an empty facts mapping, every
\* step keeps every key of facts, with the same Fact Record.
FactsAppendOnly ==
    [][DOMAIN input.facts = {} =>
        \A k \in DOMAIN state.facts :
            k \in DOMAIN state'.facts /\ state'.facts[k] = state.facts[k]]_vars

\* a fetch step has added to a facts mapping that already held a key
FactsAppendOnlyWitness ==
    /\ DOMAIN input.facts = {}
    /\ {"scope_candidates", "backbone", "workers"} \subseteq DOMAIN state.facts

\* C6: Scope stickiness. When the scope-resolution step runs with line_id and
\* job_id both set (to a non-empty identifier, which is what the step tests), it
\* returns its input state: no fact-store query is issued, facts gains no
\* "scope_candidates" key, line_id and job_id are unchanged.
ScopeStickiness ==
    [][(pc = "scope" /\ TruthyStr(state.line_id) /\ TruthyStr(state.job_id)) =>
        (state' = state /\ calls' = calls)]_vars

\* the scope step has run on a preset scope
ScopeStickinessWitness ==
    /\ TruthyStr(input.line_id) /\ TruthyStr(input.job_id)
    /\ trace = <<"route", "scope">>
    /\ state.line_id = input.line_id /\ state.job_id = input.job_id

\* C7: Payload completeness. Every requested key that is absent from facts is
\* named in the payload _facts_payload produced, by a section marking it.
PayloadCompleteness ==
    pc = "returned" =>
        \A i \in DOMAIN keys :
            keys[i] \notin DOMAIN state.facts =>
                \E j \in DOMAIN payload :
                    "key" \in DOMAIN payload[j] /\ payload[j].key = keys[i]

RaisedCalls == {i \in DOMAIN calls : calls[i].raised}

AnalysisAgents ==
    {"capacity_agent", "instruction_agent", "supplier_risk_agent",
     "line_status_agent", "mermaid_agent"}

\* C8: Halt on failure, in order. A failed collaborator call is the last call of
\* its run and the node that issued it is the last node executed: the run is
\* failed and END is not reached. After an analysis failure neither verify nor
\* respond has executed; after a verifier failure respond has not executed.
HaltOnFailure ==
    \A i \in RaisedCalls :
        /\ i = Len(calls)
        /\ pc = "failed"
        /\ calls[i].to \in AnalysisAgents =>
            /\ Last(trace) \in AnalysisNodes
            /\ "verify" \notin Range(trace)
            /\ "respond" \notin Range(trace)
        /\ calls[i].to = "verifier_agent" =>
            /\ Last(trace) = "verify"
            /\ "respond" \notin Range(trace)
        /\ calls[i].to = "router_agent" => Last(trace) = "route"
        /\ calls[i].to = "db" => Last(trace) \in Nodes \ (AnalysisNodes \cup {"route", "verify", "respond"})

\* the capacity agent failed and the caller has been told
HaltOnFailureWitness ==
    /\ calls # <<>>
    /\ Last(calls).to = "capacity_agent"
    /\ Last(calls).raised
    /\ outcome = "error"

\* C9: Classification failure aborts before any fetch. The classifier is the first
\* collaborator called in every run, so the route step precedes every fact-store
\* query; if it fails, no query is issued, facts gains no key and no later step
\* executes.
ClassificationFailureAborts ==
    /\ calls # <<>> => calls[1].to = "router_agent"
    /\ \A i \in DOMAIN calls : calls[i].to = "db" => (i > 1 /\ ~calls[1].raised)
    /\ (calls # <<>> /\ calls[1].raised) =>
        /\ Len(calls) = 1
        /\ state.facts = input.facts
        /\ trace = <<"route">>
        /\ pc = "failed"

\* the classifier failed
ClassificationFailureAbortsWitness ==
    /\ calls # <<>>
    /\ calls[1].to = "router_agent"
    /\ calls[1].raised
    /\ outcome = "error"

\* C10: No partial result on failure. A run in which a collaborator call failed
\* ends in the error outcome and hands the caller no state; the error outcome
\* never carries a state; a completed state is handed over only when the run
\* reached END with no failed call, and it is the final state.
NoPartialResult ==
    /\ RaisedCalls # {} => (out = None /\ outcome \in {"running", "error"})
    /\ outcome = "error" => out = None
    /\ outcome = "running" => out = None
    /\ outcome = "completed" => (RaisedCalls = {} /\ pc = END /\ out = Some(state))

\* a fetch failed after facts had been written, and the caller has been told
NoPartialResultWitness ==
    /\ calls # <<>>
    /\ Last(calls).to = "db"
    /\ Last(calls).raised
    /\ DOMAIN state.facts # {}
    /\ outcome = "error"

\* C11: Intent is write-once. The route step runs at most once and sets intent to
\* the value the classifier returned; every other step leaves intent as it is.
IntentWriteOnce ==
    [][/\ pc # "route" => state'.intent = state.intent
       /\ (pc = "route" /\ pc' # "failed") =>
            /\ Last(calls').to = "router_agent"
            /\ state'.intent = Last(calls').output[1]
       /\ Count(trace', {"route"}) <= 1]_vars

\* a run has passed every step after route with the classifier's answer in place
IntentWriteOnceWitness ==
    /\ pc = END
    /\ calls[1].output = Some(Some("vsm"))
    /\ state.intent = Some("vsm")

\* equality of transcripts, entry by entry: same kind of message, same content
SameTranscript(a, b) ==
    /\ Len(a) = Len(b)
    /\ \A i \in DOMAIN a : a[i].type = b[i].type /\ a[i].content = b[i].content

IsPrefix(a, b) == Len(a) <= Len(b) /\ SubSeq(b, 1, Len(a)) = a

\* the node sequence of each recognized intent, as the claim lists it
IntentPath(i) ==
    CASE i = "capacity_wip" ->
            <<"route", "scope", "backbone", "fetch_cap_workers", "capacity",
              "verify", "respond">>
      [] i = "work_instructions" ->
            <<"route", "scope", "backbone", "fetch_instr_parts", "fetch_instr_workers",
              "instructions", "verify", "respond">>
      [] i = "supplier_risk" ->
            <<"route", "scope", "backbone", "fetch_risk_parts", "supplier_risk",
              "verify", "respond">>
      [] i = "vsm" ->
            <<"route", "scope", "backbone", "vsm_mermaid", "verify", "respond">>
      [] i = "line_status" ->
            <<"route", "scope", "fetch_all_lines", "line_status", "verify", "respond">>

\* C13: Per-intent path. Once the intent is one of the five tokens, the nodes
\* executed are a prefix of that intent's sequence and, unless a step failed, the
\* next node is the next one of the sequence, END after respond; at END the nodes
\* executed are exactly the sequence. A line_status run never executes backbone.
PerIntentPath ==
    \A i \in Intent :
        state.intent = Some(i) =>
            /\ IsPrefix(trace, IntentPath(i))
            /\ pc # "failed" => IsPrefix(Append(trace, pc), Append(IntentPath(i), END))
            /\ pc = END => trace = IntentPath(i)
            /\ i = "line_status" => "backbone" \notin Range(trace)

\* a work_instructions run has reached END
PerIntentPathWitness ==
    /\ pc = END
    /\ state.intent = Some("work_instructions")

\* the route step returned and left an intent that is none of the five tokens
UnrecognizedIntent ==
    /\ calls # <<>>
    /\ ~calls[1].raised
    /\ (state.intent = None \/ state.intent[1] \notin Intent)

\* C14: Unrecognized intent takes the default branch. Once the route step has
\* left intent unset or outside the five tokens, the nodes started are always a
\* prefix of the capacity_wip sequence; while no collaborator call raised the
\* run is neither failed nor stuck on an unregistered label, its next position
\* is the next node of that sequence, a step is enabled until END, and at END
\* the whole sequence route, scope, backbone, fetch_cap_workers, capacity,
\* verify, respond has run.
DefaultBranch ==
    UnrecognizedIntent =>
        /\ IsPrefix(trace, IntentPath("capacity_wip"))
        /\ RaisedCalls = {} =>
            /\ pc \notin {"failed", "unmapped"}
            /\ IsPrefix(Append(trace, pc), Append(IntentPath("capacity_wip"), END))
            /\ pc # END => ENABLED NodeStep
        /\ pc = END => trace = IntentPath("capacity_wip")

DefaultBranchWitness ==
    /\ pc = END
    /\ state.intent = Some("unrecognized")
    /\ trace = IntentPath("capacity_wip")

\* the unconditional edges leaving node n
EdgesFrom(n) == {e \in Edges : e[1] = n}

\* C15: Deterministic successor. In every state reached, and for every intent
\* the state could carry, each node has exactly one outgoing transition: one
\* unconditional edge and no decision function, or no unconditional edge and a
\* decision function returning one registered label; so exactly one successor
\* is enabled, and the successor a step moves to is that one.
DeterministicSuccessor ==
    [][/\ \A n \in Nodes : \A i \in RouterOutputs :
            LET st == [state EXCEPT !.intent = i]
            IN  /\ Cardinality(EdgesFrom(n)) + Cardinality(BranchLabels(n, st)) = 1
                /\ BranchLabels(n, st) \subseteq DOMAIN BranchTargets(n)
                /\ Cardinality(Successors(n, st)) = 1
       /\ (pc \in Nodes /\ pc' # "failed") => Successors(pc, state') = {pc'}]_vars

DeterministicSuccessorWitness ==
    /\ pc = "fetch_risk_parts"
    /\ Last(trace) = "backbone"
    /\ Successors("backbone", state) = {"fetch_risk_parts"}

\* the fact keys the claim lists per analysis node
ListedKeys(n) ==
    CASE n = "capacity" -> <<"backbone", "workers", "supervisors", "skill_coverage">>
      [] n = "instructions" -> <<"backbone", "parts_suppliers", "workers">>
      [] n = "supplier_risk" -> <<"backbone", "parts_suppliers">>
      [] n = "line_status" -> <<"all_lines">>
      [] OTHER -> <<>>

\* C16: Verification uses the analysis's fact subset. Whenever the verify step
\* calls the verifier, the analysis node that ran just before it is one of the
\* four report writers, the keys verify serializes are the keys that node
\* serialized and the ones listed for it, and the serialized source handed to
\* the verifier is the payload that node's agent was given.
VerifyUsesAnalysisKeys ==
    [][(pc = "verify" /\ Len(calls') > Len(calls)) =>
            /\ Last(calls').to = "verifier_agent"
            /\ Last(trace) \in AnalysisNodes \ {"vsm_mermaid"}
            /\ keys' = keys
            /\ keys' = ListedKeys(Last(trace))
            /\ Last(calls).arg = payload
            /\ Last(calls').arg.source = payload]_vars

VerifyUsesAnalysisKeysWitness ==
    /\ "instructions" \in Range(trace)
    /\ Last(trace) = "verify"
    /\ Last(calls).to = "verifier_agent"
    /\ keys = <<"backbone", "parts_suppliers", "workers">>

\* some stretch of the text spells graph or flowchart, whatever the letter case
HasDeclaration(text) ==
    \E i \in 1..Len(text) : \E j \in i..Len(text) :
        Lower(SubSeq(text, i, j)) \in {<<"g", "r", "a", "p", "h">>,
                                       <<"f", "l", "o", "w", "c", "h", "a", "r", "t">>}

\* C17: Diagram verification is local. When verify runs right after the diagram
\* node with a non-empty diagram text, it calls no collaborator, never fails,
\* and writes a verification that is valid with no issues if the text spells
\* graph or flowchart in any letter case, and invalid with exactly one issue
\* otherwise.
LocalDiagramCheck ==
    [][(pc = "verify" /\ Last(trace) = "vsm_mermaid" /\ TruthyText(state.mermaid)) =>
            /\ calls' = calls
            /\ pc' = "respond"
            /\ state'.verification # None
            /\ state'.verification[1].valid = HasDeclaration(state.mermaid[1])
            /\ Len(state'.verification[1].issues)
                 = (IF HasDeclaration(state.mermaid[1]) THEN 0 ELSE 1)]_vars

LocalDiagramCheckWitness ==
    /\ trace # <<>>
    /\ Last(trace) = "verify"
    /\ state.mermaid = Some(<<"F", "l", "o", "w", "c", "h", "a", "r", "t">>)
    /\ state.verification = Some(VerificationResult(TRUE, <<>>))
    /\ Last(calls).to = "mermaid_agent"

\* C18: Scope auto-resolution. When the scope step runs with line_id or job_id
\* unset, it issues exactly one call, to the fact store, with the
\* most-urgent-lines query and limit 5; if the call raises the run fails with
\* the state untouched; otherwise the result is recorded under
\* facts["scope_candidates"], and line_id and job_id become those of the first
\* row when there is one and stay as they were when there is none.
ScopeAutoResolution ==
    [][(pc = "scope" /\ ~(TruthyStr(state.line_id) /\ TruthyStr(state.job_id))) =>
            /\ Len(calls') = Len(calls) + 1
            /\ Last(calls').to = "db"
            /\ Last(calls').arg = [cypher |-> "most_urgent_lines", params |-> [limit |-> 5]]
            /\ Last(calls').raised => (pc' = "failed" /\ state' = state)
            /\ ~Last(calls').raised =>
                LET rows == Last(calls').output[1]
                IN  /\ "scope_candidates" \in DOMAIN state'.facts
                    /\ state'.facts["scope_candidates"].cypher = "most_urgent_lines"
                    /\ state'.facts["scope_candidates"].rows = rows
                    /\ \A k \in DOMAIN state.facts \ {"scope_candidates"} :
                            state'.facts[k] = state.facts[k]
                    /\ IF rows # <<>>
                       THEN /\ state'.line_id = rows[1].line_id
                            /\ state'.job_id = rows[1].job_id
                       ELSE /\ state'.line_id = state.line_id
                            /\ state'.job_id = state.job_id]_vars

ScopeAutoResolutionWitness ==
    /\ trace # <<>>
    /\ Last(trace) = "scope"
    /\ pc # "failed"
    /\ input.line_id = None
    /\ Len(Last(calls).output[1]) = 2
    /\ state.line_id = Last(calls).output[1][1].line_id
    /\ state.job_id = Last(calls).output[1][1].job_id

\* the run started with no scope and its scope query came back with zero rows
EmptyScope ==
    /\ input.line_id = None
    /\ input.job_id = None
    /\ Len(calls) >= 2
    /\ calls[2].to = "db"
    /\ calls[2].arg.cypher = "most_urgent_lines"
    /\ calls[2].output = Some(<<>>)

\* C19: Empty scope is not a terminal error. After a scope query that returned
\* zero rows from an unset scope: line_id and job_id stay unset; every later
\* fact-store query is issued with unset scope parameters; while no collaborator
\* call raised, the run is not failed and a next step is enabled until END; the
\* payload serialized for the analysis names the unset scope and carries the
\* no-data marker for every requested key that was fetched with zero rows; and
\* at END an analysis node, verify and respond have all run.
EmptyScopeTolerated ==
    EmptyScope =>
        /\ state.line_id = None /\ state.job_id = None
        /\ \A i \in 3..Len(calls) :
              calls[i].to = "db" =>
                  \A k \in DOMAIN calls[i].arg.params : calls[i].arg.params[k] = None
        /\ RaisedCalls = {} =>
              /\ pc \notin {"failed", "unmapped"}
              /\ pc # END => ENABLED NodeStep
        /\ payload # <<>> =>
              /\ payload[1].section = "scope"
              /\ payload[1].line_id = None /\ payload[1].job_id = None
              /\ \A j \in DOMAIN keys :
                    (keys[j] \in DOMAIN state.facts /\ state.facts[keys[j]].rows = <<>>) =>
                        \E i \in DOMAIN payload :
                            payload[i].section = "no_data" /\ payload[i].key = keys[j]
        /\ pc = END =>
              /\ Range(trace) \cap AnalysisNodes # {}
              /\ {"verify", "respond"} \subseteq Range(trace)

EmptyScopeToleratedWitness ==
    /\ EmptyScope
    /\ pc = END
    /\ "capacity" \in Range(trace)
    /\ \E i \in DOMAIN payload : payload[i].section = "no_data" /\ payload[i].key = "backbone"

\* C20: Scope is set at most once per run. A line_id or job_id that holds a
\* value, whether the caller provided it or a step assigned it, is never
\* changed by a later step.
ScopeSetOnce ==
    [][/\ state.line_id # None => state'.line_id = state.line_id
       /\ state.job_id # None => state'.job_id = state.job_id]_vars

\* the positions in `calls` of the calls to collaborator c
CallsTo(c) == {i \in DOMAIN calls : calls[i].to = c}

\* the positions in `calls` of the fact-store queries of template t
QueriesOf(t) == {i \in CallsTo("db") : calls[i].arg.cypher = t}

Templates ==
    {"most_urgent_lines", "operation_backbone", "parts_and_suppliers", "workers_for_line",
     "supervisors_for_line", "skill_coverage", "all_lines_status"}

\* C21: No retry. In every state of a run each node has been started at most
\* once; once route has started the classifier has been called exactly once;
\* each fact-store query template has been issued at most once; at most one
\* call went to an analysis agent and at most one to the verifier; and a call
\* that raised is the last call of the run, so it was never issued again.
NoRetry ==
    /\ \A n \in Nodes : Count(trace, {n}) <= 1
    /\ trace # <<>> => Cardinality(CallsTo("router_agent")) = 1
    /\ trace = <<>> => calls = <<>>
    /\ \A t \in Templates : Cardinality(QueriesOf(t)) <= 1
    /\ Cardinality(UNION {CallsTo(a) : a \in AnalysisAgents}) <= 1
    /\ Cardinality(CallsTo("verifier_agent")) <= 1
    /\ RaisedCalls \subseteq {Len(calls)}

NoRetryWitness ==
    /\ pc = "failed"
    /\ Last(trace) = "fetch_instr_workers"
    /\ Last(calls).raised
    /\ Last(calls).arg.cypher = "supervisors_for_line"
    /\ Len(calls) = 6

\* every arc of the compiled graph: the unconditional edges and, for the two
\* deciding nodes, an arc to every registered target
Arcs ==
    Edges \cup UNION {{<<n, BranchTargets(n)[l]>> : l \in DOMAIN BranchTargets(n)} :
                        n \in {"scope", "backbone"}}

\* the nodes reachable from the set S in at most k arcs (k >= 1)
RECURSIVE ReachWithin(_, _)
ReachWithin(S, k) ==
    LET next == {a[2] : a \in {a \in Arcs : a[1] \in S}}
    IN  IF k = 1 THEN next ELSE next \cup ReachWithin(next, k - 1)

\* C22: Termination. The graph has no cycle (no node reaches itself); in every
\* state at most 8 nodes have been started and, while the run is at a node, a
\* step is enabled (it is never stuck); and, given that every collaborator call
\* returns or raises, every run eventually stands at END or has failed, for
\* every intent value including unset and unrecognized.
Termination ==
    /\ \A n \in Nodes : n \notin ReachWithin({n}, Cardinality(Nodes))
    /\ [](Len(trace) <= 8)
    /\ [](pc \in Nodes => ENABLED NodeStep)
    /\ [](pc \in Nodes \cup {END, "failed"})
    /\ <>(pc \in {END, "failed"})

TerminationWitness ==
    /\ pc = END
    /\ Len(trace) = 8
    /\ state.intent = Some("work_instructions")

FetchNodes ==
    {"backbone", "fetch_cap_workers", "fetch_instr_parts", "fetch_instr_workers",
     "fetch_risk_parts", "fetch_all_lines"}

\* the keys the claim lists per fetch step, each with the query template whose
\* result it holds
FixedKeys(n) ==
    CASE n = "backbone" -> [backbone |-> "operation_backbone"]
      [] n \in {"fetch_instr_parts", "fetch_risk_parts"} ->
            [parts_suppliers |-> "parts_and_suppliers"]
      [] n \in {"fetch_cap_workers", "fetch_instr_workers"} ->
            [workers |-> "workers_for_line", supervisors |-> "supervisors_for_line",
             skill_coverage |-> "skill_coverage"]
      [] n = "fetch_all_lines" -> [all_lines |-> "all_lines_status"]

\* C23: Fetch steps write only their fixed keys. A fetch step that returns
\* leaves facts with its former keys plus exactly its own fixed keys, each
\* holding the result of its own query template; every other key keeps its
\* value and every field other than facts is unchanged. A fetch step that
\* fails leaves the whole state unchanged.
FetchWritesFixedKeys ==
    [][/\ (pc \in FetchNodes /\ pc' = "failed") => state' = state
       /\ (pc \in FetchNodes /\ pc' # "failed") =>
            /\ DOMAIN state'.facts = DOMAIN state.facts \cup DOMAIN FixedKeys(pc)
            /\ \A k \in DOMAIN FixedKeys(pc) : state'.facts[k].cypher = FixedKeys(pc)[k]
            /\ \A k \in DOMAIN state.facts \ DOMAIN FixedKeys(pc) :
                  state'.facts[k] = state.facts[k]
            /\ [state' EXCEPT !.facts = state.facts] = state]_vars

FetchWritesFixedKeysWitness ==
    /\ pc = "instructions"
    /\ DOMAIN state.facts =
         {"scope_candidates", "backbone", "parts_suppliers", "workers", "supervisors",
          "skill_coverage"}

WorkerNodes == {"fetch_cap_workers", "fetch_instr_workers"}

\* the order in which the claim says the sub-queries are issued, with the key
\* each result is stored under
WorkerOrder == <<"workers_for_line", "supervisors_for_line", "skill_coverage">>
WorkerKeys == <<"workers", "supervisors", "skill_coverage">>

\* C24: Workers fetch is all-or-nothing. A workers step issues between one and
\* three fact-store queries, in the order workers, supervisors, skill_coverage.
\* If one of them raises it is the last one issued, the step fails, the state
\* (so each of the three keys) is left as it was, and from the failed position
\* no node runs and no call is made. If none raises, all three were issued and
\* the three keys hold their results.
WorkersAllOrNothing ==
    [][/\ pc \in WorkerNodes =>
            LET new == SubSeq(calls', Len(calls) + 1, Len(calls'))
                failed == \E j \in DOMAIN new : new[j].raised
            IN  /\ Len(new) \in 1..3
                /\ \A j \in DOMAIN new : new[j].to = "db" /\ new[j].arg.cypher = WorkerOrder[j]
                /\ \A j \in DOMAIN new : new[j].raised => j = Len(new)
                /\ failed => /\ pc' = "failed"
                             /\ state' = state
                             /\ \A j \in DOMAIN WorkerKeys : WorkerKeys[j] \notin DOMAIN state'.facts
                /\ ~failed => /\ Len(new) = 3
                              /\ pc' # "failed"
                              /\ \A j \in 1..3 :
                                    state'.facts[WorkerKeys[j]].rows = new[j].output[1]
       /\ pc = "failed" => (state' = state /\ calls' = calls /\ trace' = trace)]_vars

WorkersAllOrNothingWitness ==
    /\ pc = "failed"
    /\ Last(trace) = "fetch_cap_workers"
    /\ Last(calls).arg.cypher = "skill_coverage"
    /\ DOMAIN state.facts \cap {"workers", "supervisors", "skill_coverage"} = {}

\* the fields the claim lets each step change (the fetch steps: facts)
Delta(n) ==
    CASE n = "route" -> {"intent", "user_goal"}
      [] n = "scope" -> {"facts", "line_id", "job_id"}
      [] n \in FetchNodes -> {"facts"}
      [] n = "capacity" -> {"capacity_report"}
      [] n = "instructions" -> {"work_instructions"}
      [] n = "supplier_risk" -> {"supplier_risk_report"}
      [] n = "line_status" -> {"line_status_report"}
      [] n = "vsm_mermaid" -> {"mermaid"}
      [] n = "verify" -> {"verification"}
      [] n = "respond" -> {"messages"}

GoalSetOnce ==
    [][/\ pc # "route" => state'.user_goal = state.user_goal
       /\ (pc = "route" /\ pc' # "failed") =>
             /\ state.user_goal # "" => state'.user_goal = state.user_goal
             /\ (state.user_goal = "" /\ state.messages # <<>>) =>
                   state'.user_goal = Last(state.messages).content
             /\ Last(calls').to = "router_agent"
             /\ Last(calls').arg = state'.user_goal]_vars

\* an invocation executed alone: where it stands and what its state is after k
\* node executions from (st, n), the collaborators answering as o says
RECURSIVE Alone(_, _, _, _)
Alone(st, n, o, k) ==
    IF k = 0 \/ n \notin Nodes THEN [state |-> st, pc |-> n]
    ELSE LET res == NodeOutcome(n, st, o)
         IN  IF res.raised THEN [state |-> st, pc |-> "failed"]
             ELSE Alone(res.output, CHOOSE nx \in Successors(n, res.output) : TRUE, o, k - 1)

VerificationProduced ==
    pc = END => state.verification # None

\* the fact keys the claim lists per analysis node, the diagram node included
ServedKeys(n) == IF n = "vsm_mermaid" THEN <<"backbone">> ELSE ListedKeys(n)

\* C29: Facts are present before analysis. Whenever the run stands at an
\* analysis node, every fact key listed for that node is already a key of
\* facts; and when the node executes, the keys it serializes are the listed
\* ones and its payload has one section per key after the scope line (none is
\* left out as missing). This holds on the default path of an unrecognized
\* intent as well.
FactsBeforeAnalysis ==
    [][/\ pc \in AnalysisNodes =>
            \A j \in DOMAIN ServedKeys(pc) : ServedKeys(pc)[j] \in DOMAIN state.facts
       /\ pc \in AnalysisNodes =>
            /\ keys' = ServedKeys(pc)
            /\ Len(payload') = 1 + Len(keys')
            /\ \A j \in DOMAIN keys' : payload'[j + 1].key = keys'[j]
       /\ pc \in AnalysisNodes => Last(trace') = pc]_vars

FactsBeforeAnalysisWitness ==
    /\ trace # <<>>
    /\ Last(trace) = "capacity"
    /\ state.intent = Some("unrecognized")
    /\ keys = <<"backbone", "workers", "supervisors", "skill_coverage">>
    /\ Len(payload) = 5

\* C30: Only the facts the intent needs are fetched. At the end of every
\* completed run that started without facts, the keys of facts other than
\* "scope_candidates" are exactly the keys the analysis node that ran serializes.
OnlyNeededFacts ==
    (pc = END /\ input.facts = <<>>) =>
        \A n \in Range(trace) \cap AnalysisNodes :
            DOMAIN state.facts \ {"scope_candidates"} = Range(ServedKeys(n))

\* the variant the verify step of this run checked: the one it handed to the
\* verifier, the diagram if it checked locally, none if it wrote no verification
VerifiedVariant ==
    IF calls # <<>> THEN Last(calls).arg.output
    ELSE IF state.verification # None THEN "mermaid"
    ELSE "none"

\* the positions of the response text that show an output
OutputParts(content) ==
    {i \in DOMAIN content : content[i].part \notin {"intent", "verification"}}

\* C31: Verified output is the rendered output. In every state, whatever
\* combination of output fields is non-empty, the variant node_verify selects
\* is the variant _format_response renders; and the response the respond step
\* appends shows at most one output, which is the variant the verify step of
\* the run checked (and shows none when verify checked none).
VerifiedIsRendered ==
    [][/\ VerifyVariant(state) = RenderedVariant(state)
       /\ VerifyVariant(state') = RenderedVariant(state')
       /\ pc = "respond" =>
             LET content == Last(state'.messages).content
             IN  /\ Cardinality(OutputParts(content)) = (IF VerifiedVariant = "none" THEN 0 ELSE 1)
                 /\ \A i \in OutputParts(content) : content[i].part = VerifiedVariant
       /\ pc = "respond" => pc' = END]_vars

VerifiedIsRenderedWitness ==
    /\ pc = END
    /\ TruthyList(state.work_instructions)
    /\ state.supplier_risk_report # None
    /\ TruthyText(state.mermaid)
    /\ calls # <<>>
    /\ calls[1].arg.output = "work_instructions"
    /\ Last(state.messages).content[2].part = "work_instructions"

\* C32: The error field is never written. In every state of a run that started
\* with error unset, error is unset in the state, in the object the latest node
\* was handed and in the state the caller receives; once a collaborator call
\* has raised the run stands failed and never completes, and the caller's
\* error outcome comes with no state at all.
ErrorNeverWritten ==
    input.error = None =>
        /\ state.error = None
        /\ held.error = None
        /\ out # None => out[1].error = None
        /\ RaisedCalls # {} => (pc = "failed" /\ outcome # "completed")
        /\ outcome = "error" => out = None
        /\ outcome = "completed" => (pc = END /\ RaisedCalls = {})

ErrorNeverWrittenWitness ==
    /\ outcome = "error"
    /\ pc = "failed"
    /\ Last(calls).raised
    /\ Last(calls).to = "supplier_risk_agent"
    /\ state.error = None
    /\ input.error = None

====
